---- MODULE Spec2Model ----
(***************************************************************************)
(* The LLM proxy of backend/node: the token-bucket RateLimiter, the POST   *)
(* /llm handler (rate limiting, prompt validation), provider selection in  *)
(* processLLMRequest and the outbound provider calls.                      *)
(*                                                                         *)
(* Time is the value of Date.now() in milliseconds, counted from the       *)
(* construction of the RateLimiter.  The clock advances in ticks of        *)
(* MS_PER_MINUTE \div TicksPerMinute ms.  refill() computes                *)
(* Math.floor((elapsed / 60000) * maxTokens) in double arithmetic; for the *)
(* elapsed times and rates of this model the double result equals the      *)
(* exact integer floor, which is what TokensToAdd computes.                *)
(***************************************************************************)
EXTENDS Integers, Sequences, FiniteSets, Bags, TLC

\* ---------------------------------------------------------------- bounds
MaxRate == 3
TicksPerMinute == 2
MaxTicks == 4
MaxPromptChars == 3
MaxFresh == 5
MaxInFlight == 1

\* ------------------------------------------------------ program constants
MS_PER_MINUTE == 60000

TickMs == MS_PER_MINUTE \div TicksPerMinute
MaxNow == MaxTicks * TickMs

Min(a, b) == IF a < b THEN a ELSE b
Max(a, b) == IF a > b THEN a ELSE b

\* ------------------------------------------------------------- JS values
\* A JavaScript value as far as the handler looks at it: its typeof and,
\* for numbers and strings, the value.
Undefined == [type |-> "undefined", num |-> 0, str |-> ""]
Null == [type |-> "null", num |-> 0, str |-> ""]
Num(n) == [type |-> "number", num |-> n, str |-> ""]
Str(s) == [type |-> "string", num |-> 0, str |-> s]

\* JavaScript truthiness, as used by `if (x)` and `!x`.
Truthy(v) ==
    CASE v.type = "string" -> Len(v.str) > 0
      [] v.type = "number" -> v.num # 0
      [] OTHER -> FALSE

\* The characters of a prompt: one that occurs in none of the fixed texts of
\* the program (messages, hexadecimal digests).
Alphabet == {"z"}

RECURSIVE StringsOfLength(_)
StringsOfLength(n) ==
    IF n = 0 THEN {""}
    ELSE {s \o c : s \in StringsOfLength(n - 1), c \in Alphabet}

Strings == UNION {StringsOfLength(n) : n \in 0..MaxPromptChars}

\* request.body of a POST /llm: undefined (no payload), or an object whose
\* prompt property is missing (undefined), null, a number or a string.
PromptValues == {Undefined, Null, Num(5)} \cup {Str(s) : s \in Strings}
NoBody == [present |-> FALSE, prompt |-> Undefined]
Bodies == {NoBody} \cup {[present |-> TRUE, prompt |-> v] : v \in PromptValues}

\* ---------------------------------------------------------------- config
\* getEnvNumber: parseInt of the variable, any integer (negative included);
\* the default when the variable is unset or not a number.
RateLimits == -1..MaxRate
PromptLimits == {-1, 0, MaxPromptChars - 1}
\* process.env[...]: undefined, or any string (the empty one included).
ApiKeys == {Undefined, Str(""), Str("sk")}

\* Every setting a request reads, over the values above.
AllConfigs ==
    [rateLimitPerMinute : RateLimits,
     maxPromptLength : PromptLimits,
     openaiApiKey : ApiKeys,
     anthropicApiKey : ApiKeys,
     openaiModel : {"gpt-4o-mini"},
     anthropicModel : {"claude-3-5-sonnet-latest"},
     llmTimeout : {30000}]

\* The configurations explored: the rate limit, the prompt limit and the API
\* keys each range over all their values while the other two settings are
\* at a base value (one request per minute, prompts of at most
\* MaxPromptChars - 1 characters, no key).
Configs ==
    {c \in AllConfigs :
        \/ /\ c.maxPromptLength = MaxPromptChars - 1
           /\ c.openaiApiKey = Undefined /\ c.anthropicApiKey = Undefined
        \/ /\ c.rateLimitPerMinute = 1
           /\ c.openaiApiKey = Undefined /\ c.anthropicApiKey = Undefined
        \/ /\ c.rateLimitPerMinute = 1
           /\ c.maxPromptLength = MaxPromptChars - 1}

VARIABLES
    config,      \* the Config object
    now,         \* Date.now()
    maxTokens,   \* RateLimiter.maxTokens
    tokens,      \* RateLimiter.tokens
    lastRefill,  \* RateLimiter.lastRefill
    calls,       \* the bag of provider calls in flight, one per pending request
    reply,       \* the last HTTP exchange completed: request body and reply
    fetched,     \* the providers an outbound fetch was ever issued to
    admitted,    \* the times of the admissions of the last minute
    attempt,     \* the last tryConsume() call: when (at first, construction),
                 \* whether it returned false, whether it was one of the
                 \* maxTokens calls that followed an idle minute
    owed,        \* how many of those maxTokens calls are still to come
    freshCalls,  \* the tryConsume() calls made before the clock first
                 \* advanced, counted up to MaxFresh; 0 afterwards
    lastGet,     \* the last response of a route other than POST /llm
    timers       \* the bag of the deadlines of the setTimeout() timers that
                 \* are pending: set, and neither cleared nor fired

vars == <<config, now, maxTokens, tokens, lastRefill, calls, reply, fetched,
          admitted, attempt, owed, freshCalls, lastGet, timers>>

\* ---------------------------------------------------------- rate limiter
\* Variant: the elapsed minutes, not scaled by maxTokens.
TokensToAddPerMinute(elapsed) == elapsed \div MS_PER_MINUTE

TokensToAdd(elapsed) == (elapsed * maxTokens) \div MS_PER_MINUTE

\* Variant: a refill that is not capped at maxTokens.
refillUncapped ==
    LET elapsed == now - lastRefill
        tokensToAdd == TokensToAdd(elapsed)
    IN  IF tokensToAdd > 0
        THEN [tokens |-> tokens + tokensToAdd, lastRefill |-> now]
        ELSE [tokens |-> tokens, lastRefill |-> lastRefill]

\* Variant: a refill that moves lastRefill to the present on every call.
refillRestartsClock ==
    LET elapsed == now - lastRefill
        tokensToAdd == TokensToAdd(elapsed)
    IN  IF tokensToAdd > 0
        THEN [tokens |-> Min(maxTokens, tokens + tokensToAdd), lastRefill |-> now]
        ELSE [tokens |-> tokens, lastRefill |-> now]

\* refill(): the bucket after it.
refill ==
    LET elapsed == now - lastRefill
        tokensToAdd == TokensToAdd(elapsed)
    IN  IF tokensToAdd > 0
        THEN [tokens |-> Min(maxTokens, tokens + tokensToAdd), lastRefill |-> now]
        ELSE [tokens |-> tokens, lastRefill |-> lastRefill]

\* Variant: the decrement of a request that arrives while another is
\* suspended at its await is lost.
tryConsumeStale ==
    LET b == refill
    IN  IF b.tokens > 0
        THEN [ok |-> TRUE,
              tokens |-> IF calls # EmptyBag THEN b.tokens ELSE b.tokens - 1,
              lastRefill |-> b.lastRefill]
        ELSE [ok |-> FALSE, tokens |-> b.tokens, lastRefill |-> b.lastRefill]

\* Variant: a token is taken while tokens >= 0.
tryConsumeOffByOne ==
    LET b == refill
    IN  IF b.tokens >= 0
        THEN [ok |-> TRUE, tokens |-> b.tokens - 1, lastRefill |-> b.lastRefill]
        ELSE [ok |-> FALSE, tokens |-> b.tokens, lastRefill |-> b.lastRefill]

\* tryConsume(): what it returns (ok) and the bucket after it.
tryConsume ==
    LET b == refill
    IN  IF b.tokens > 0
        THEN [ok |-> TRUE, tokens |-> b.tokens - 1, lastRefill |-> b.lastRefill]
        ELSE [ok |-> FALSE, tokens |-> b.tokens, lastRefill |-> b.lastRefill]

\* ------------------------------------------------------------- responses
ErrorResponse(msg) == [error |-> msg]

createStubResponse ==
    [provider |-> "stub",
     model |-> "none",
     output |-> "Stub response. Set OPENAI_API_KEY or ANTHROPIC_API_KEY for real LLM calls.",
     stub |-> TRUE,
     error |-> Null]

\* Variant: the Anthropic key is looked at first.
SelectProviderAnthropicFirst ==
    IF Truthy(config.anthropicApiKey) THEN "anthropic"
    ELSE IF Truthy(config.openaiApiKey) THEN "openai"
    ELSE "stub"

\* Variant: a key counts as configured as soon as it is defined.
SelectProviderDefined ==
    IF config.openaiApiKey.type # "undefined" THEN "openai"
    ELSE IF config.anthropicApiKey.type # "undefined" THEN "anthropic"
    ELSE "stub"

\* processLLMRequest: the provider that serves a validated prompt.
SelectProvider ==
    IF Truthy(config.openaiApiKey) THEN "openai"
    ELSE IF Truthy(config.anthropicApiKey) THEN "anthropic"
    ELSE "stub"

\* body?.prompt
PromptOf(body) == IF body.present THEN body.prompt ELSE Undefined

\* Variant: only the type and the maximum length are tested.
ValidatePromptNoEmptyCheck(body) ==
    LET prompt == PromptOf(body)
    IN  IF prompt.type # "string"
        THEN [status |-> 400, payload |-> ErrorResponse("Prompt is required")]
        ELSE IF Len(prompt.str) > config.maxPromptLength
        THEN [status |-> 400,
              payload |-> ErrorResponse("Prompt exceeds maximum length of "
                            \o ToString(config.maxPromptLength) \o " characters")]
        ELSE [status |-> 0, payload |-> ErrorResponse("")]

\* Variant: the length test is `>=`.
ValidatePromptInclusive(body) ==
    LET prompt == PromptOf(body)
    IN  IF ~Truthy(prompt) \/ prompt.type # "string"
        THEN [status |-> 400, payload |-> ErrorResponse("Prompt is required")]
        ELSE IF Len(prompt.str) = 0
        THEN [status |-> 400, payload |-> ErrorResponse("Prompt cannot be empty")]
        ELSE IF Len(prompt.str) >= config.maxPromptLength
        THEN [status |-> 400,
              payload |-> ErrorResponse("Prompt exceeds maximum length of "
                            \o ToString(config.maxPromptLength) \o " characters")]
        ELSE [status |-> 0, payload |-> ErrorResponse("")]

\* The prompt validation of the handler: the 400 reply, or status 0 when the
\* prompt is valid.
ValidatePrompt(body) ==
    LET prompt == PromptOf(body)
    IN  IF ~Truthy(prompt) \/ prompt.type # "string"
        THEN [status |-> 400, payload |-> ErrorResponse("Prompt is required")]
        ELSE IF Len(prompt.str) = 0
        THEN [status |-> 400, payload |-> ErrorResponse("Prompt cannot be empty")]
        ELSE IF Len(prompt.str) > config.maxPromptLength
        THEN [status |-> 400,
              payload |-> ErrorResponse("Prompt exceeds maximum length of "
                            \o ToString(config.maxPromptLength) \o " characters")]
        ELSE [status |-> 0, payload |-> ErrorResponse("")]

\* Variant: the prompt is validated before the rate limiter is consulted.
LlmHandlerValidateFirst(body) ==
    LET c == tryConsume
        v == ValidatePrompt(body)
    IN  IF v.status # 0
        THEN [tokens |-> tokens, lastRefill |-> lastRefill, consumed |-> FALSE,
              ok |-> FALSE, status |-> v.status, payload |-> v.payload,
              provider |-> "none"]
        ELSE IF ~c.ok
        THEN [tokens |-> c.tokens, lastRefill |-> c.lastRefill, consumed |-> TRUE,
              ok |-> FALSE, status |-> 429,
              payload |-> ErrorResponse("Rate limit exceeded. Try again later."),
              provider |-> "none"]
        ELSE IF SelectProvider = "stub"
        THEN [tokens |-> c.tokens, lastRefill |-> c.lastRefill, consumed |-> TRUE,
              ok |-> TRUE, status |-> 200, payload |-> createStubResponse,
              provider |-> "stub"]
        ELSE [tokens |-> c.tokens, lastRefill |-> c.lastRefill, consumed |-> TRUE,
              ok |-> TRUE, status |-> 0, payload |-> ErrorResponse(""),
              provider |-> SelectProvider]

\* Variant: the token of a request rejected with 400 is given back.
LlmHandlerRefund(body) ==
    LET c == tryConsume
        v == ValidatePrompt(body)
    IN  IF ~c.ok
        THEN [tokens |-> c.tokens, lastRefill |-> c.lastRefill, consumed |-> TRUE,
              ok |-> FALSE, status |-> 429,
              payload |-> ErrorResponse("Rate limit exceeded. Try again later."),
              provider |-> "none"]
        ELSE IF v.status # 0
        THEN [tokens |-> c.tokens + 1, lastRefill |-> c.lastRefill, consumed |-> TRUE,
              ok |-> TRUE, status |-> v.status, payload |-> v.payload,
              provider |-> "none"]
        ELSE IF SelectProvider = "stub"
        THEN [tokens |-> c.tokens, lastRefill |-> c.lastRefill, consumed |-> TRUE,
              ok |-> TRUE, status |-> 200, payload |-> createStubResponse,
              provider |-> "stub"]
        ELSE [tokens |-> c.tokens, lastRefill |-> c.lastRefill, consumed |-> TRUE,
              ok |-> TRUE, status |-> 0, payload |-> ErrorResponse(""),
              provider |-> SelectProvider]

\* Variant: the answer of tryConsume() is not acted upon when the prompt is
\* valid, so a rejected request still reaches the provider.
LlmHandlerIgnoresLimiter(body) ==
    LET c == tryConsume
        v == ValidatePrompt(body)
    IN  IF ~c.ok /\ v.status # 0
        THEN [tokens |-> c.tokens, lastRefill |-> c.lastRefill, consumed |-> TRUE,
              ok |-> FALSE, status |-> 429,
              payload |-> ErrorResponse("Rate limit exceeded. Try again later."),
              provider |-> "none"]
        ELSE IF v.status # 0
        THEN [tokens |-> c.tokens, lastRefill |-> c.lastRefill, consumed |-> TRUE,
              ok |-> TRUE, status |-> v.status, payload |-> v.payload,
              provider |-> "none"]
        ELSE IF SelectProvider = "stub"
        THEN [tokens |-> c.tokens, lastRefill |-> c.lastRefill, consumed |-> TRUE,
              ok |-> c.ok, status |-> 200, payload |-> createStubResponse,
              provider |-> "stub"]
        ELSE [tokens |-> c.tokens, lastRefill |-> c.lastRefill, consumed |-> TRUE,
              ok |-> c.ok, status |-> 0, payload |-> ErrorResponse(""),
              provider |-> SelectProvider]

\* The synchronous part of the POST /llm handler, up to its reply or to the
\* await of the provider call: the bucket it leaves, what tryConsume()
\* returned (consumed: whether it was called at all), and either the reply
\* (status # 0) or the provider to call.
LlmHandler(body) ==
    LET c == tryConsume
        v == ValidatePrompt(body)
    IN  IF ~c.ok
        THEN [tokens |-> c.tokens, lastRefill |-> c.lastRefill, consumed |-> TRUE,
              ok |-> FALSE, status |-> 429,
              payload |-> ErrorResponse("Rate limit exceeded. Try again later."),
              provider |-> "none"]
        ELSE IF v.status # 0
        THEN [tokens |-> c.tokens, lastRefill |-> c.lastRefill, consumed |-> TRUE,
              ok |-> TRUE, status |-> v.status, payload |-> v.payload,
              provider |-> "none"]
        ELSE IF SelectProvider = "stub"
        THEN [tokens |-> c.tokens, lastRefill |-> c.lastRefill, consumed |-> TRUE,
              ok |-> TRUE, status |-> 200, payload |-> createStubResponse,
              provider |-> "stub"]
        ELSE [tokens |-> c.tokens, lastRefill |-> c.lastRefill, consumed |-> TRUE,
              ok |-> TRUE, status |-> 0, payload |-> ErrorResponse(""),
              provider |-> SelectProvider]

\* ----------------------------------------------------------------- state
NoReply == [body |-> NoBody, consumed |-> FALSE, ok |-> FALSE, status |-> 0,
            payload |-> ErrorResponse("")]

\* A provider call in flight: where it waits (pc), with the request it serves.
StartCall(provider, body) ==
    [pc |-> "fetch", provider |-> provider, body |-> body, timer |-> "armed",
     deadline |-> now + config.llmTimeout, status |-> 0]

InFlight == BagToSet(calls)

\* setTimeout(callback, delay): the timers with one more, due after delay.
setTimeout(delay) == timers (+) SetToBag({now + delay})

\* clearTimeout(timeoutId) for the timer of call c: the timers without it; as
\* they are when it is no longer pending.
clearTimeout(c) ==
    IF c.timer = "armed" THEN timers (-) SetToBag({c.deadline}) ELSE timers
Replace(c, d) == (calls (-) SetToBag({c})) (+) SetToBag({d})

\* No request to another route has been answered yet.
NoGet == [route |-> "", status |-> 0, payload |-> [error |-> ""]]

Init ==
    /\ config \in Configs
    /\ now = 0
    /\ maxTokens = config.rateLimitPerMinute
    /\ tokens = config.rateLimitPerMinute
    /\ lastRefill = now
    /\ calls = EmptyBag
    /\ reply = NoReply
    /\ fetched = {}
    /\ admitted = <<>>
    /\ attempt = [at |-> now, rejected |-> FALSE, promised |-> FALSE]
    /\ owed = 0
    /\ freshCalls = 0
    /\ lastGet = NoGet
    /\ timers = EmptyBag

\* The admission times of `log` that lie in the minute ending at t.
RECURSIVE Since(_, _)
Since(log, t) ==
    IF log = <<>> THEN <<>>
    ELSE IF Head(log) < t - MS_PER_MINUTE THEN Since(Tail(log), t)
    ELSE log

\* The clock advances by one tick.
Tick ==
    /\ now + TickMs <= MaxNow
    /\ now' = now + TickMs
    /\ admitted' = Since(admitted, now')
    /\ freshCalls' = 0
    /\ UNCHANGED <<lastGet, config, maxTokens, tokens, lastRefill, calls, reply, fetched,
                   attempt, owed, timers>>

\* Variant: the handler waits for the provider synchronously, so no request
\* is served while a call is in flight.
PostLlmBlocking(body) ==
    LET h == LlmHandler(body)
        idle == now - attempt.at >= MS_PER_MINUTE
    IN  /\ calls = EmptyBag
        /\ tokens' = h.tokens
        /\ lastRefill' = h.lastRefill
        /\ IF h.consumed
           THEN /\ attempt' = [at |-> now, rejected |-> ~h.ok,
                               promised |-> (idle /\ maxTokens >= 1) \/ owed > 0]
                /\ owed' = IF idle THEN Max(maxTokens, 1) - 1 ELSE Max(owed, 1) - 1
                /\ freshCalls' = IF now = 0 THEN Min(freshCalls + 1, MaxFresh) ELSE 0
                /\ admitted' = IF h.ok THEN Append(admitted, now) ELSE admitted
           ELSE UNCHANGED <<attempt, owed, freshCalls, admitted>>
        /\ IF h.status # 0
           THEN /\ reply' = [body |-> body, consumed |-> h.consumed, ok |-> h.ok,
                             status |-> h.status, payload |-> h.payload]
                /\ UNCHANGED <<calls, fetched, timers>>
           ELSE /\ BagCardinality(calls) < MaxInFlight
                /\ calls' = calls (+) SetToBag({StartCall(h.provider, body)})
                /\ fetched' = fetched \cup {h.provider}
                /\ timers' = setTimeout(config.llmTimeout)
                /\ UNCHANGED reply
        /\ UNCHANGED <<lastGet, config, now, maxTokens>>

\* A POST /llm request arrives and its handler runs to its reply, or to the
\* await of the provider call.
PostLlm(body) ==
    LET h == LlmHandler(body)
        idle == now - attempt.at >= MS_PER_MINUTE
    IN  /\ tokens' = h.tokens
        /\ lastRefill' = h.lastRefill
        /\ IF h.consumed
           THEN /\ attempt' = [at |-> now, rejected |-> ~h.ok,
                               promised |-> (idle /\ maxTokens >= 1) \/ owed > 0]
                /\ owed' = IF idle THEN Max(maxTokens, 1) - 1 ELSE Max(owed, 1) - 1
                /\ freshCalls' = IF now = 0 THEN Min(freshCalls + 1, MaxFresh) ELSE 0
                /\ admitted' = IF h.ok THEN Append(admitted, now) ELSE admitted
           ELSE UNCHANGED <<attempt, owed, freshCalls, admitted>>
        /\ IF h.status # 0
           THEN /\ reply' = [body |-> body, consumed |-> h.consumed, ok |-> h.ok,
                             status |-> h.status, payload |-> h.payload]
                /\ UNCHANGED <<calls, fetched, timers>>
           ELSE /\ BagCardinality(calls) < MaxInFlight
                /\ calls' = calls (+) SetToBag({StartCall(h.provider, body)})
                /\ fetched' = fetched \cup {h.provider}
                /\ timers' = setTimeout(config.llmTimeout)
                /\ UNCHANGED reply
        /\ UNCHANGED <<lastGet, config, now, maxTokens>>

\* -------------------------------------------------------- provider calls
ProviderName(p) == IF p = "openai" THEN "OpenAI" ELSE "Anthropic"
ProviderModel(p) == IF p = "openai" THEN config.openaiModel ELSE config.anthropicModel

\* The LLMResponse of a failed call, and of a completion.
ErrorCompletion(p, msg) ==
    [provider |-> p, model |-> ProviderModel(p), output |-> "", stub |-> FALSE,
     error |-> Str(msg)]
Completion(p, content) ==
    [provider |-> p, model |-> ProviderModel(p), output |-> content,
     stub |-> FALSE, error |-> Null]

\* What a provider may answer with a 2xx status, parsed.  OpenAI: choices,
\* each given by its message.content (undefined when absent).  Anthropic:
\* content, blocks of a type and a text.
OpenAIData ==
    {<<>>, <<Undefined>>, <<Str("")>>, <<Str("hello")>>, <<Str(""), Str("bye")>>}
Block(type, text) == [type |-> type, text |-> text]
AnthropicData ==
    {<<>>,
     <<Block("text", Str("hello"))>>,
     <<Block("text", Undefined)>>,
     <<Block("image", Undefined), Block("text", Str("hello"))>>,
     <<Block("text", Str("")), Block("text", Str("bye"))>>}
UpstreamData(p) == IF p = "openai" THEN OpenAIData ELSE AnthropicData

\* data.choices?.[0]?.message?.content ?? ''
OpenAIContent(data) ==
    IF Len(data) = 0 THEN ""
    ELSE IF data[1].type \in {"undefined", "null"} THEN ""
    ELSE data[1].str

\* Variant: the text of the first block of type "text", whatever it is.
AnthropicContentFirstText(data) ==
    LET texts == SelectSeq(data, LAMBDA b : b.type = "text")
    IN  IF texts = <<>> THEN ""
        ELSE IF texts[1].text.type = "string" THEN texts[1].text.str
        ELSE ""

\* The text of the first block of type "text" whose text is truthy, else ''.
RECURSIVE AnthropicContent(_)
AnthropicContent(data) ==
    IF Len(data) = 0 THEN ""
    ELSE IF Head(data).type = "text" /\ Truthy(Head(data).text)
    THEN Head(data).text.str
    ELSE AnthropicContent(Tail(data))

ExtractContent(p, data) ==
    IF p = "openai" THEN OpenAIContent(data) ELSE AnthropicContent(data)

\* Variant: the extracted content is returned without the empty check.
CompletionOfNoEmptyCheck(p, data) == Completion(p, ExtractContent(p, data))

\* The LLMResponse for a parsed 2xx answer.
CompletionOf(p, data) ==
    LET content == ExtractContent(p, data)
    IN  IF Len(content) = 0
        THEN ErrorCompletion(p, ProviderName(p) \o " returned empty response")
        ELSE Completion(p, content)

NotOkStatuses == {500}
TransportErrors == {"fetch failed"}
BodyErrors == {"terminated"}

\* Variant: the token of a request whose provider call failed is given back.
ReturnRefundOnError(c, response) ==
    /\ reply' = [body |-> c.body, consumed |-> TRUE, ok |-> TRUE,
                 status |-> 200, payload |-> response]
    /\ calls' = calls (-) SetToBag({c})
    /\ tokens' = IF response.error # Null THEN tokens + 1 ELSE tokens
    /\ UNCHANGED <<lastGet, config, now, maxTokens, lastRefill, fetched,
                   admitted, attempt, owed, freshCalls>>

\* Variant: a completion that reports a failure is sent with status 502.
ReturnBadGateway(c, response) ==
    /\ reply' = [body |-> c.body, consumed |-> TRUE, ok |-> TRUE,
                 status |-> IF response.error # Null THEN 502 ELSE 200,
                 payload |-> response]
    /\ calls' = calls (-) SetToBag({c})
    /\ UNCHANGED <<lastGet, config, now, maxTokens, tokens, lastRefill, fetched,
                   admitted, attempt, owed, freshCalls>>

\* Variant: a failed OpenAI call falls back to Anthropic when its key is set.
ReturnWithFallback(c, response) ==
    IF /\ c.provider = "openai"
       /\ response.error # Null
       /\ Truthy(config.anthropicApiKey)
    THEN /\ calls' = Replace(c, StartCall("anthropic", c.body))
         /\ fetched' = fetched \cup {"anthropic"}
         /\ UNCHANGED <<lastGet, config, now, maxTokens, tokens, lastRefill, reply,
                        admitted, attempt, owed, freshCalls>>
    ELSE /\ reply' = [body |-> c.body, consumed |-> TRUE, ok |-> TRUE,
                      status |-> 200, payload |-> response]
         /\ calls' = calls (-) SetToBag({c})
         /\ UNCHANGED <<lastGet, config, now, maxTokens, tokens, lastRefill, fetched,
                        admitted, attempt, owed, freshCalls>>

\* The call c returns `response`; the handler replies with it (200).
Return(c, response) ==
    /\ reply' = [body |-> c.body, consumed |-> TRUE, ok |-> TRUE,
                 status |-> 200, payload |-> response]
    /\ calls' = calls (-) SetToBag({c})
    /\ UNCHANGED <<lastGet, config, now, maxTokens, tokens, lastRefill, fetched,
                   admitted, attempt, owed, freshCalls>>

\* fetch() resolves with the response's status line and headers: the timer
\* is cleared and the call goes on to read the body.
FetchResolves(c, status) ==
    /\ c.pc = "fetch"
    /\ c.timer = "armed"
    /\ calls' = Replace(c, [c EXCEPT !.pc = IF status = 200 THEN "json" ELSE "text",
                                     !.timer = "cleared",
                                     !.status = status])
    /\ timers' = clearTimeout(c)
    /\ UNCHANGED <<lastGet, config, now, maxTokens, tokens, lastRefill, reply, fetched,
                   admitted, attempt, owed, freshCalls>>

\* Variant: a transport error makes the client issue the request again.
FetchRejectsRetry(c, msg) ==
    /\ c.pc = "fetch"
    /\ c.timer = "armed"
    /\ calls' = Replace(c, StartCall(c.provider, c.body))
    /\ timers' = clearTimeout(c) (+) SetToBag({now + config.llmTimeout})
    /\ UNCHANGED <<lastGet, config, now, maxTokens, tokens, lastRefill, reply, fetched,
                   admitted, attempt, owed, freshCalls>>

\* Variant: a catch block that leaves the timer as it is.
FetchRejectsKeepsTimer(c, msg) ==
    /\ c.pc = "fetch"
    /\ c.timer = "armed"
    /\ UNCHANGED timers
    /\ Return(c, ErrorCompletion(c.provider, "Request failed: " \o msg))

\* fetch() rejects with a transport error: the catch block clears the timer
\* and returns the failure.
FetchRejects(c, msg) ==
    /\ c.pc = "fetch"
    /\ c.timer = "armed"
    /\ timers' = clearTimeout(c)
    /\ Return(c, ErrorCompletion(c.provider, "Request failed: " \o msg))

\* The timer fires, no earlier than llmTimeout after the call started, and is
\* pending no more: controller.abort() makes fetch() reject with an
\* AbortError, and the catch block returns the failure.
TimerFires(c) ==
    /\ c.pc = "fetch"
    /\ c.timer = "armed"
    /\ now >= c.deadline
    /\ timers' = timers (-) SetToBag({c.deadline})
    /\ Return(c, ErrorCompletion(c.provider, "Request timed out"))

\* response.text() of a non-2xx response resolves.
TextResolves(c) ==
    /\ c.pc = "text"
    /\ UNCHANGED timers
    /\ Return(c, ErrorCompletion(c.provider,
                    ProviderName(c.provider) \o " API error: " \o ToString(c.status)))

\* response.json() of a 2xx response resolves with the parsed body.
JsonResolves(c, data) ==
    /\ c.pc = "json"
    /\ data \in UpstreamData(c.provider)
    /\ UNCHANGED timers
    /\ Return(c, CompletionOf(c.provider, data))

\* Variant: a failure while reading the body is not caught by the client; the
\* handler's catch answers it.
BodyRejectsPropagates(c, msg) ==
    /\ c.pc \in {"text", "json"}
    /\ UNCHANGED timers
    /\ reply' = [body |-> c.body, consumed |-> TRUE, ok |-> TRUE,
                 status |-> 500,
                 payload |-> ErrorResponse("Internal error: " \o msg)]
    /\ calls' = calls (-) SetToBag({c})
    /\ UNCHANGED <<lastGet, config, now, maxTokens, tokens, lastRefill, fetched,
                   admitted, attempt, owed, freshCalls>>

\* response.text() or response.json() rejects (the body stream fails, or the
\* body is not JSON).
BodyRejects(c, msg) ==
    /\ c.pc \in {"text", "json"}
    /\ timers' = clearTimeout(c)
    /\ Return(c, ErrorCompletion(c.provider, "Request failed: " \o msg))

Next ==
    \/ Tick
    \/ \E body \in Bodies : PostLlm(body)
    \/ \E c \in InFlight, status \in {200} \cup NotOkStatuses : FetchResolves(c, status)
    \/ \E c \in InFlight, msg \in TransportErrors : FetchRejects(c, msg)
    \/ \E c \in InFlight : TimerFires(c)
    \/ \E c \in InFlight : TextResolves(c)
    \/ \E c \in InFlight, data \in OpenAIData \cup AnthropicData : JsonResolves(c, data)
    \/ \E c \in InFlight, msg \in BodyErrors : BodyRejects(c, msg)

Spec == Init /\ [][Next]_vars

\* The clock keeps advancing and requests keep arriving.
RetrySpec == Spec /\ WF_vars(Tick) /\ WF_vars(\E body \in Bodies : PostLlm(body))

\* The same program under the scheduling the runtime provides: the clock
\* advances, and a timer that is due fires.  Nothing is assumed of the
\* upstream provider.
LiveSpec ==
    /\ Spec
    /\ WF_vars(Tick)
    /\ WF_vars(\E c \in InFlight : TimerFires(c))

\* ------------------------------------------------- the handler's catch
\* The messages of the exceptions processLLMRequest may be rejected with.
\* The clients as written never throw; the handler is also checked against
\* an orchestrator that does.
InternalErrors == {"boom"}

\* Variant: the rejection is not caught by the handler and reaches the
\* application's error handler, which answers with the bare message.
OrchestratorThrowsUncaught(c, msg) ==
    /\ reply' = [body |-> c.body, consumed |-> TRUE, ok |-> TRUE,
                 status |-> 500, payload |-> ErrorResponse(msg)]
    /\ calls' = calls (-) SetToBag({c})
    /\ timers' = clearTimeout(c)
    /\ UNCHANGED <<lastGet, config, now, maxTokens, tokens, lastRefill, fetched,
                   admitted, attempt, owed, freshCalls>>

\* `await processLLMRequest(prompt)` rejects: the handler's catch replies.
OrchestratorThrows(c, msg) ==
    /\ reply' = [body |-> c.body, consumed |-> TRUE, ok |-> TRUE,
                 status |-> 500,
                 payload |-> ErrorResponse("Internal error: " \o msg)]
    /\ calls' = calls (-) SetToBag({c})
    /\ timers' = clearTimeout(c)
    /\ UNCHANGED <<lastGet, config, now, maxTokens, tokens, lastRefill, fetched,
                   admitted, attempt, owed, freshCalls>>

ThrowNext ==
    \/ Next
    \/ \E c \in InFlight, msg \in InternalErrors : OrchestratorThrows(c, msg)

ThrowSpec == Init /\ [][ThrowNext]_vars

\* ---------------------------------------------------------------- logging
\* getPromptHashPrefix: the first 8 hexadecimal digits of the SHA-256 digest,
\* for the prompts of the model.
getPromptHashPrefix(prompt) ==
    CASE prompt = "z" -> "594e519a"
      [] prompt = "zz" -> "4a60bf7d"
      [] prompt = "zzz" -> "17f165d5"
      [] prompt = "zzzz" -> "2d6ccd34"
      [] OTHER -> "e3b0c442"

\* A log line: formatMessage's JSON of the level, the message and the
\* context, each context value as it is printed.
LogLine(level, message, context) ==
    [level |-> level, message |-> message, context |-> context]

\* The lines the handler of POST /llm logs before it replies or suspends.
HandlerLog(body) ==
    LET h == LlmHandler(body)
        prompt == PromptOf(body).str
        length == <<"promptLength", ToString(Len(prompt))>>
        hash == <<"hashPrefix", getPromptHashPrefix(prompt)>>
    IN  IF h.status = 429 THEN <<LogLine("warn", "Rate limit exceeded", <<>>)>>
        ELSE IF h.status = 400 THEN <<>>
        ELSE <<LogLine("info", "Processing LLM request", <<length>>)>> \o
             (IF h.provider = "stub"
              THEN <<LogLine("info", "No LLM provider configured, returning stub response", <<>>)>>
              ELSE <<LogLine("info", "Using " \o ProviderName(h.provider) \o " provider", <<>>),
                     LogLine("debug", ProviderName(h.provider) \o " request", <<length, hash>>)>>)

\* What the body of a non-2xx answer may read: the upstream's own words, or
\* words that quote the content it was sent.
UpstreamErrorTexts(c) ==
    {"Internal Server Error", "invalid content: " \o c.body.prompt.str}

\* The lines a provider call may log in its next step, by the step.
CallLog(c) ==
    LET name == ProviderName(c.provider)
    IN  (IF c.pc = "fetch"
         THEN {LogLine("error", name \o " request failed", <<<<"error", msg>>>>) :
                  msg \in TransportErrors}
              \cup {LogLine("error", name \o " request timed out", <<>>)}
         ELSE {LogLine("error", name \o " request failed", <<<<"error", msg>>>>) :
                  msg \in BodyErrors})
        \cup (IF c.pc = "text"
              THEN {LogLine("error", name \o " API error",
                            <<<<"status", ToString(c.status)>>, <<"error", text>>>>) :
                       text \in UpstreamErrorTexts(c)}
              ELSE {})
        \cup (IF c.pc = "json"
              THEN {LogLine("warn", name \o " returned empty response", <<>>)}
              ELSE {})

\* ---------------------------------------------------------- other routes
\* Variant: a key counts as configured as soon as it is defined.
getAvailableProvidersDefined ==
    LET openai == IF config.openaiApiKey.type # "undefined" THEN <<"openai">> ELSE <<>>
        anthropic == IF config.anthropicApiKey.type # "undefined" THEN <<"anthropic">> ELSE <<>>
        providers == openai \o anthropic
    IN  IF Len(providers) = 0 THEN <<"stub">> ELSE providers

\* Variant: the Anthropic key is looked at first.
getAvailableProvidersAnthropicFirst ==
    LET openai == IF Truthy(config.openaiApiKey) THEN <<"openai">> ELSE <<>>
        anthropic == IF Truthy(config.anthropicApiKey) THEN <<"anthropic">> ELSE <<>>
        providers == anthropic \o openai
    IN  IF Len(providers) = 0 THEN <<"stub">> ELSE providers

\* getAvailableProviders(): the configured providers, in order.
getAvailableProviders ==
    LET openai == IF Truthy(config.openaiApiKey) THEN <<"openai">> ELSE <<>>
        anthropic == IF Truthy(config.anthropicApiKey) THEN <<"anthropic">> ELSE <<>>
        providers == openai \o anthropic
    IN  IF Len(providers) = 0 THEN <<"stub">> ELSE providers

\* config.appName, config.appVersion and config.nodeEnv, at their defaults.
AppName == "Ona Node.js Backend"
AppVersion == "1.0.0"
NodeEnv == "development"

\* The body of the GET /info response.
InfoResponse ==
    LET providers == getAvailableProviders
    IN  [name |-> AppName, version |-> AppVersion, environment |-> NodeEnv,
         llm_providers |-> providers,
         active_provider |-> IF Len(providers) >= 1 THEN providers[1] ELSE "none"]

\* GET /info.
GetInfo ==
    /\ lastGet' = [route |-> "/info", status |-> 200, payload |-> InfoResponse]
    /\ UNCHANGED <<config, now, maxTokens, tokens, lastRefill, calls, reply,
                   fetched, admitted, attempt, owed, freshCalls, timers>>

\* GET /health; the timestamp is the clock's reading.
GetHealth ==
    /\ lastGet' = [route |-> "/health", status |-> 200,
                   payload |-> [status |-> "ok", timestamp |-> now,
                                version |-> AppVersion]]
    /\ UNCHANGED <<config, now, maxTokens, tokens, lastRefill, calls, reply,
                   fetched, admitted, attempt, owed, freshCalls, timers>>

\* A request to a route that is not registered.
NotFound ==
    /\ lastGet' = [route |-> "*", status |-> 404, payload |-> [error |-> "Not found"]]
    /\ UNCHANGED <<config, now, maxTokens, tokens, lastRefill, calls, reply,
                   fetched, admitted, attempt, owed, freshCalls, timers>>

\* The application with all of its routes.
AppNext ==
    \/ Next
    \/ GetInfo
    \/ GetHealth
    \/ NotFound

AppSpec == Init /\ [][AppNext]_vars

\* ================================================================ claims

\* ---- C1 ----------------------------------------------------------------
\* C1: in every reachable state the bucket satisfies 0 <= tokens <= maxTokens.
\* Violated: a negative RATE_LIMIT_PER_MINUTE is parsed and used as it is,
\* and the bucket is constructed with tokens = maxTokens < 0.
C1_TokensInRange == 0 <= tokens /\ tokens <= maxTokens

\* ---- C2 ----------------------------------------------------------------
\* The admissions of the 60 seconds ending now: `open` leaves out the
\* instant exactly 60 seconds ago.
RECURSIVE CountAfter(_, _)
CountAfter(log, t) ==
    IF log = <<>> THEN 0
    ELSE (IF Head(log) > t THEN 1 ELSE 0) + CountAfter(Tail(log), t)
AdmittedInOpenMinute == CountAfter(admitted, now - MS_PER_MINUTE)
AdmittedInClosedMinute == CountAfter(admitted, now - MS_PER_MINUTE - 1)

Post400(body) == PostLlm(body) /\ reply'.status = 400 /\ reply'.body = body

\* C3 as stated: a request rejected with 400 leaves tokens and lastRefill as
\* they were.  Violated: the handler calls tryConsume() before it validates.
C3_NoBucketChange ==
    [][(\E body \in Bodies : Post400(body))
        => (tokens' = tokens /\ lastRefill' = lastRefill)]_vars

\* C3 amended: a request rejected with 400 has been admitted first, and
\* changes the bucket as one successful tryConsume() does: tokens becomes
\* min(maxTokens, tokens + tokensToAdd) - 1, lastRefill becomes now when
\* tokensToAdd > 0; the configuration and the calls in flight are unchanged.
C3_ConsumesOneToken ==
    [][(\E body \in Bodies : Post400(body))
        => LET add == Max(0, TokensToAdd(now - lastRefill))
           IN  /\ tokens' = Min(maxTokens, tokens + add) - 1
               /\ tokens' >= 0
               /\ lastRefill' = (IF add > 0 THEN now ELSE lastRefill)
               /\ UNCHANGED <<config, maxTokens, calls, fetched>>]_vars

\* The first request to a fresh bucket was rejected with 400 and a token is
\* gone.
C3_Witness ==
    /\ reply.status = 400
    /\ freshCalls = 1
    /\ tokens = maxTokens - 1

\* ---- C4 ----------------------------------------------------------------
\* C4: with a fresh bucket of N >= 0 tokens and no elapsed time, after k
\* calls min(k, N) have returned true (the first N return true, all later
\* ones false); and a call returns true after one that returned false only
\* if floor(elapsedMs / 60000 * maxTokens) >= 1 at that call.
C4_Saturation ==
    /\ [](now = 0 /\ maxTokens >= 0 => Len(admitted) = Min(freshCalls, maxTokens))
    /\ [][attempt.rejected /\ ~attempt'.rejected
            => TokensToAdd(now' - lastRefill) >= 1]_vars

\* The (N+1)-th call to a fresh bucket of N >= 1 tokens returned false.
C4_Witness ==
    /\ now = 0
    /\ maxTokens >= 1
    /\ freshCalls = maxTokens + 1
    /\ attempt.rejected

\* ---- C5 ----------------------------------------------------------------
\* C5: each of the maxTokens calls that follow a minute without a call
\* returns true.
C5_FullAfterIdleMinute == attempt.promised => ~attempt.rejected

\* The last of the calls that followed an idle minute, maxTokens >= 2, has
\* emptied the bucket.
C5_Witness ==
    /\ attempt.promised
    /\ ~attempt.rejected
    /\ owed = 0
    /\ maxTokens >= 2
    /\ tokens = 0

\* ---- C6 ----------------------------------------------------------------
RateLimitMessage == "Rate limit exceeded. Try again later."

\* C6: a request for which tryConsume() returned false is answered 429 with
\* the rate-limit message whatever its body, and only an admitted request is
\* answered 400.
C6_LimiterBeforeValidation ==
    reply.status # 0 =>
        /\ reply.consumed
        /\ ~reply.ok => (reply.status = 429 /\ reply.payload = [error |-> RateLimitMessage])
        /\ reply.status = 400 => reply.ok
        /\ reply.status = 429 => ~reply.ok

\* A request with an empty prompt was answered 429.
C6_Witness ==
    /\ reply.status = 429
    /\ reply.body = [present |-> TRUE, prompt |-> Str("")]

\* ---- C7 ----------------------------------------------------------------
\* The shape of a request body, by the claim's cases.
Shape(body) ==
    IF ~body.present \/ body.prompt.type = "undefined" THEN "missing"
    ELSE IF body.prompt.type # "string" THEN "not a string"
    ELSE IF body.prompt.str = "" THEN "empty"
    ELSE IF Len(body.prompt.str) > config.maxPromptLength THEN "too long"
    ELSE "valid"

ExceedsMessage ==
    "Prompt exceeds maximum length of " \o ToString(config.maxPromptLength)
        \o " characters"

\* C7: an admitted request of an invalid shape is answered 400, with a
\* message that the handler gives to no request of another invalid shape.
\* Violated: the test `!prompt` also catches the empty string, so the branch
\* that answers "Prompt cannot be empty" is never taken and missing,
\* non-string and empty prompts all get "Prompt is required".
C7_DistinctMessages ==
    (reply.ok /\ Shape(reply.body) # "valid") =>
        /\ reply.status = 400
        /\ \A b \in Bodies :
              Shape(b) \notin {"valid", Shape(reply.body)}
                  => ValidatePrompt(b).payload.error # reply.payload.error

\* ---- C8 ----------------------------------------------------------------
\* C8: an admitted request with prompt "" or with no prompt is answered 400
\* with a message other than the over-long one, and no provider call or
\* completion is ever made for such a body.
C8_EmptyAndMissingRejected ==
    /\ (reply.ok /\ Shape(reply.body) \in {"empty", "missing"}) =>
          /\ reply.status = 400
          /\ reply.payload.error # ExceedsMessage
    /\ \A c \in InFlight : Shape(c.body) \notin {"empty", "missing"}

\* An admitted request without a body was answered 400.
C8_Witness ==
    /\ reply.ok
    /\ reply.status = 400
    /\ reply.body = NoBody

\* ---- C9 ----------------------------------------------------------------
IsStringPrompt(body) == body.present /\ body.prompt.type = "string"

\* C9: an admitted request with a string prompt is answered 400 if and only
\* if the prompt is empty or longer than maxPromptLength, and is otherwise
\* passed on (a completion with 200, or a provider call in flight); a
\* provider call is only ever made for a non-empty prompt of at most
\* maxPromptLength characters.
C9_LengthBoundary ==
    /\ (reply.ok /\ IsStringPrompt(reply.body)) =>
          LET n == Len(reply.body.prompt.str)
          IN  IF n = 0 \/ n > config.maxPromptLength
              THEN reply.status = 400
              ELSE reply.status = 200
    /\ \A c \in InFlight :
          /\ IsStringPrompt(c.body)
          /\ Len(c.body.prompt.str) \in 1..config.maxPromptLength

\* A prompt of exactly maxPromptLength characters was served.
C9_Witness ==
    /\ reply.ok
    /\ IsStringPrompt(reply.body)
    /\ Len(reply.body.prompt.str) = config.maxPromptLength
    /\ reply.status = 200

\* ---- C10 ---------------------------------------------------------------
\* C10: when neither API key is set (undefined or empty), no outbound call
\* is ever made and every admitted request with a valid prompt is answered
\* 200 with exactly the stub response.
C10_StubFallback ==
    (~Truthy(config.openaiApiKey) /\ ~Truthy(config.anthropicApiKey)) =>
        /\ calls = EmptyBag
        /\ fetched = {}
        /\ (reply.ok /\ Shape(reply.body) = "valid") =>
              /\ reply.status = 200
              /\ reply.payload =
                    [provider |-> "stub", model |-> "none",
                     output |-> "Stub response. Set OPENAI_API_KEY or ANTHROPIC_API_KEY for real LLM calls.",
                     stub |-> TRUE, error |-> Null]

\* A stub response was returned under an empty OpenAI key.
C10_Witness ==
    /\ config.openaiApiKey = Str("")
    /\ reply.status = 200
    /\ reply.payload.stub

\* ---- C11 ---------------------------------------------------------------
\* A key is set when the code takes it as set: `if (config.openaiApiKey)`.
OpenAIKeySet == Truthy(config.openaiApiKey)
AnthropicKeySet == Truthy(config.anthropicApiKey)

\* The providers of the calls in flight, and the stub when the last reply is
\* a stub response.
Pending == {c.provider : c \in InFlight}
StubReplied ==
    reply.status = 200 /\ reply.payload.provider = "stub"

\* C11: with both keys set only the OpenAI client is ever invoked; the
\* Anthropic client is invoked only with the Anthropic key set and the
\* OpenAI key not set; the stub is returned only with neither key set.
C11_Precedence ==
    /\ (OpenAIKeySet /\ AnthropicKeySet) => (fetched \subseteq {"openai"} /\ Pending \subseteq {"openai"})
    /\ ("anthropic" \in fetched \cup Pending) => (AnthropicKeySet /\ ~OpenAIKeySet)
    /\ ("openai" \in fetched \cup Pending) => OpenAIKeySet
    /\ StubReplied => (~OpenAIKeySet /\ ~AnthropicKeySet)

\* With both keys set, an OpenAI call was made and has been answered.
C11_Witness ==
    /\ OpenAIKeySet /\ AnthropicKeySet
    /\ fetched = {"openai"}
    /\ reply.status = 200
    /\ reply.payload.provider = "openai"

\* ---- C12 ---------------------------------------------------------------
\* The reply is a completion that reports a failure.
FailureReplied ==
    reply.status = 200 /\ reply.payload.error # Null

\* C12: with the OpenAI key set, every completion, failed ones included,
\* comes from "openai" and the Anthropic client is never called; and under
\* any configuration every completion comes from the one provider the
\* configuration selects.
C12_NoFallback ==
    /\ OpenAIKeySet =>
          /\ "anthropic" \notin fetched \cup Pending
          /\ FailureReplied => reply.payload.provider = "openai"
    /\ reply.status = 200 => reply.payload.provider = SelectProvider
    /\ fetched \cup Pending \subseteq {SelectProvider}

\* With both keys set, an OpenAI call has timed out and was reported.
C12_Witness ==
    /\ OpenAIKeySet /\ AnthropicKeySet
    /\ FailureReplied
    /\ reply.payload.error = Str("Request timed out")
    /\ reply.payload.provider = "openai"
    /\ calls = EmptyBag

\* ---- C13 ---------------------------------------------------------------
StubText == "Stub response. Set OPENAI_API_KEY or ANTHROPIC_API_KEY for real LLM calls."

\* C13: every completion has a provider among "openai", "anthropic",
\* "stub"; stub is true exactly for "stub"; a completion that is not a stub
\* has either a non-empty output and no error, or an error and an empty
\* output; a stub has the fixed text and no error.
C13_ResponseShape ==
    reply.status = 200 =>
        LET r == reply.payload
        IN  /\ r.provider \in {"openai", "anthropic", "stub"}
            /\ r.stub = (r.provider = "stub")
            /\ ~r.stub => \/ (r.output # "" /\ r.error = Null)
                          \/ (r.error # Null /\ r.output = "")
            /\ ~r.stub => ~(r.output # "" /\ r.error # Null)
            /\ r.stub => (r.output = StubText /\ r.error = Null)

\* An Anthropic call was answered with an empty completion.
C13_Witness ==
    /\ reply.status = 200
    /\ reply.payload.provider = "anthropic"
    /\ reply.payload.error = Str("Anthropic returned empty response")
    /\ reply.payload.output = ""

\* ---- C14 ---------------------------------------------------------------
\* C14: a provider call whose exchange is not complete when llmTimeout has
\* passed is aborted with "Request timed out": for every call still in
\* flight at or after its deadline the abort is due.  Violated: the timer is
\* cleared as soon as fetch() resolves with the status line and headers, so
\* a call that is reading the body past its deadline is never aborted.
C14_AbortDueAtDeadline ==
    \A c \in InFlight : now >= c.deadline => ENABLED TimerFires(c)

\* ---- C15 ---------------------------------------------------------------
\* C15: no admitted and validated request stays pending forever: from some
\* point on, the only calls in flight are those whose deadline lies beyond
\* the explored time.  Violated: a call whose upstream has sent its headers
\* and then stalls waits for the body with no timer armed.
C15_EveryRequestAnswered ==
    <>[](\A c \in InFlight : c.deadline > MaxNow)

\* ---- C16 ---------------------------------------------------------------
\* A step in which the outbound exchange of the call c fails: fetch()
\* rejects, the call is aborted, the status is not 2xx, reading or parsing
\* the body fails, or the completion is empty.
ProviderFails(c) ==
    \/ \E msg \in TransportErrors : FetchRejects(c, msg)
    \/ TimerFires(c)
    \/ TextResolves(c)
    \/ \E msg \in BodyErrors : BodyRejects(c, msg)
    \/ \E data \in UpstreamData(c.provider) :
          JsonResolves(c, data) /\ ExtractContent(c.provider, data) = ""

IsCompletion(r) == DOMAIN r = {"provider", "model", "output", "stub", "error"}

\* C16: every failure of the outbound exchange resolves to a completion of
\* the calling client with stub false, output empty and error non-null;
\* nothing is thrown to the handler.
C16_FailuresResolve ==
    [][\A c \in InFlight : ProviderFails(c) =>
          /\ IsCompletion(reply'.payload)
          /\ reply'.payload.provider = c.provider
          /\ reply'.payload.model = ProviderModel(c.provider)
          /\ reply'.payload.stub = FALSE
          /\ reply'.payload.output = ""
          /\ reply'.payload.error.type = "string"
          /\ reply'.payload.error.str # ""]_vars

\* Reading the body of an answer failed and was reported.
C16_Witness ==
    /\ reply.status = 200
    /\ reply.payload.error = Str("Request failed: terminated")
    /\ reply.payload.stub = FALSE
    /\ reply.payload.output = ""

\* ---- C17 ---------------------------------------------------------------
\* C17: a failure of the provider call is answered to the caller of that
\* request with HTTP 200 and a completion whose error is not null; no
\* other status than 200, 400 and 429 is ever sent.
C17_FailuresAre200 ==
    /\ [](reply.status \in {0, 200, 400, 429})
    /\ [][\A c \in InFlight : ProviderFails(c) =>
             /\ reply'.status = 200
             /\ reply'.body = c.body
             /\ IsCompletion(reply'.payload)
             /\ reply'.payload.error # Null]_vars

\* An upstream 500 was answered with HTTP 200.
C17_Witness ==
    /\ reply.status = 200
    /\ reply.payload.error = Str("OpenAI API error: 500")

\* ---- C18 ---------------------------------------------------------------
\* The number of outbound requests being sent or awaiting their answer.
FetchCount(b) ==
    BagCardinality(b) - BagCardinality(
        [c \in {d \in BagToSet(b) : d.pc # "fetch"} |-> CopiesIn(c, b)])

\* C18: an outbound call is only ever issued by the handler of an arriving
\* request, one per request; and the failure of a call ends it and is
\* reported at once, with no further outbound call.
C18_NoRetries ==
    /\ [][FetchCount(calls') > FetchCount(calls) =>
             /\ \E body \in Bodies : PostLlm(body)
             /\ FetchCount(calls') = FetchCount(calls) + 1
             /\ BagCardinality(calls') = BagCardinality(calls) + 1]_vars
    /\ [][\A c \in InFlight : ProviderFails(c) =>
             /\ calls' = calls (-) SetToBag({c})
             /\ FetchCount(calls') <= FetchCount(calls)
             /\ reply'.body = c.body
             /\ reply'.payload.error # Null]_vars

\* A transport error was reported and no call is left.
C18_Witness ==
    /\ reply.status = 200
    /\ reply.payload.error = Str("Request failed: fetch failed")
    /\ calls = EmptyBag

\* ---- C19 ---------------------------------------------------------------
\* The completion a client returns for an extracted string.
ResultFor(p, s) ==
    IF s = ""
    THEN [provider |-> p, model |-> ProviderModel(p), output |-> "",
          stub |-> FALSE,
          error |-> Str(ProviderName(p) \o " returned empty response")]
    ELSE [provider |-> p, model |-> ProviderModel(p), output |-> s,
          stub |-> FALSE, error |-> Null]

\* The string of a value that may be absent.
TextOf(v) == IF v.type = "string" THEN v.str ELSE ""

\* The message content of the first choice.
FirstChoice(data) == IF data = <<>> THEN "" ELSE TextOf(data[1])

\* The text of the first content block of type "text".
FirstTextBlock(data) ==
    LET texts == SelectSeq(data, LAMBDA b : b.type = "text")
    IN  IF texts = <<>> THEN "" ELSE TextOf(texts[1].text)

\* The text of the first content block of type "text" that has a non-empty
\* text.
FirstNonEmptyTextBlock(data) ==
    LET texts == SelectSeq(data, LAMBDA b : b.type = "text" /\ TextOf(b.text) # "")
    IN  IF texts = <<>> THEN "" ELSE TextOf(texts[1].text)

\* C19 as stated: on a 2xx answer the output is the first choice's message
\* content (OpenAI), the text of the first block of type "text"
\* (Anthropic); an empty or absent string gives "<Provider> returned empty
\* response".  Violated: callAnthropic passes over a text block whose text
\* is empty and returns the text of a later one.
C19_FirstTextBlock ==
    [][\A c \in InFlight : \A data \in UpstreamData(c.provider) :
          JsonResolves(c, data) =>
              reply'.payload =
                  ResultFor(c.provider,
                            IF c.provider = "openai" THEN FirstChoice(data)
                            ELSE FirstTextBlock(data))]_vars

\* C19 amended: for Anthropic the output is the text of the first block of
\* type "text" whose text is not empty, and the error is returned when
\* there is no such block.
C19_FirstNonEmptyTextBlock ==
    [][\A c \in InFlight : \A data \in UpstreamData(c.provider) :
          JsonResolves(c, data) =>
              reply'.payload =
                  ResultFor(c.provider,
                            IF c.provider = "openai" THEN FirstChoice(data)
                            ELSE FirstNonEmptyTextBlock(data))]_vars

\* An Anthropic answer whose first text block is empty was answered with
\* the text of its second.
C19_Witness ==
    /\ reply.status = 200
    /\ reply.payload.provider = "anthropic"
    /\ reply.payload.output = "bye"
    /\ reply.payload.error = Null

\* ---- C20 ---------------------------------------------------------------
\* The tokens a request finds once the bucket is refilled at this instant.
Available ==
    LET add == TokensToAdd(now - lastRefill)
    IN  IF add > 0 THEN Min(maxTokens, tokens + add) ELSE tokens

AnsweredAtOnce(body) == LlmHandler(body).status # 0

Configured(key) == key.type = "string" /\ key.str # ""

\* C22: llm_providers of GET /info is the configured providers, "openai"
\* before "anthropic", and <<"stub">> exactly when neither key is
\* configured; active_provider is its first entry and never "none".
C22_InfoProviders ==
    lastGet.route = "/info" =>
        LET p == lastGet.payload.llm_providers
            o == Configured(config.openaiApiKey)
            a == Configured(config.anthropicApiKey)
        IN  /\ lastGet.status = 200
            /\ p = IF o /\ a THEN <<"openai", "anthropic">>
                   ELSE IF o THEN <<"openai">>
                   ELSE IF a THEN <<"anthropic">>
                   ELSE <<"stub">>
            /\ (p = <<"stub">>) <=> (~o /\ ~a)
            /\ lastGet.payload.active_provider = p[1]
            /\ lastGet.payload.active_provider # "none"

\* GET /info was answered with one provider under an empty OpenAI key.
C22_Witness ==
    /\ lastGet.route = "/info"
    /\ config.openaiApiKey = Str("")
    /\ lastGet.payload.llm_providers = <<"anthropic">>
    /\ lastGet.payload.active_provider = "anthropic"

\* ---- C23 ---------------------------------------------------------------
\* The text s has the text p in it.
Contains(s, p) ==
    \E i \in 1..(Len(s) - Len(p) + 1) : SubSeq(s, i, i + Len(p) - 1) = p

\* The log line has the prompt's text in its message or in a context value.
Mentions(line, prompt) ==
    \/ Contains(line.message, prompt)
    \/ \E i \in 1..Len(line.context) : Contains(line.context[i][2], prompt)

\* C23: no log line emitted while a request is processed contains the
\* text of its prompt: neither the lines of the handler for any body, nor
\* the lines a call in flight may log in its next step.  Violated: the text
\* of a non-2xx answer is logged as it is, and it may quote the prompt.
C23_NoPromptInLogs ==
    /\ \A body \in Bodies :
          (PromptOf(body).type = "string" /\ PromptOf(body).str # "") =>
              \A i \in 1..Len(HandlerLog(body)) :
                  ~Mentions(HandlerLog(body)[i], PromptOf(body).str)
    /\ \A c \in InFlight : \A line \in CallLog(c) :
          ~Mentions(line, c.body.prompt.str)

\* ---- C24 ---------------------------------------------------------------
\* C24: when processLLMRequest raises an exception for an admitted request
\* with a valid prompt, the handler answers that request with HTTP 500 and
\* {error: "Internal error: <message>"}; no other status or body arises
\* from it.
C24_InternalError ==
    /\ reply.status \in {0, 200, 400, 429, 500}
    /\ reply.status = 500 =>
          /\ reply.ok
          /\ IsStringPrompt(reply.body)
          /\ Len(reply.body.prompt.str) \in 1..config.maxPromptLength
          /\ \E msg \in InternalErrors :
                reply.payload = [error |-> "Internal error: " \o msg]

\* An exception was answered with HTTP 500.
C24_Witness ==
    /\ reply.status = 500
    /\ reply.payload = [error |-> "Internal error: boom"]
    /\ calls = EmptyBag

\* ---- C25 ---------------------------------------------------------------
\* C25: no step changes the configuration; requests to /health, /info and
\* unmatched routes leave the bucket as it is; the bucket changes only in
\* the step of a POST /llm handler, and there exactly as its tryConsume()
\* call changes it, so nothing that follows the admission (validation,
\* provider call, timeout, upstream error, stub) gives the token back.
C25_OnlyTryConsumeWrites ==
    /\ [][config' = config /\ maxTokens' = maxTokens]_vars
    /\ [][(GetInfo \/ GetHealth \/ NotFound) =>
             (tokens' = tokens /\ lastRefill' = lastRefill)]_vars
    /\ [][(tokens' # tokens \/ lastRefill' # lastRefill) =>
             /\ \E body \in Bodies : PostLlm(body)
             /\ tokens' = tryConsume.tokens
             /\ lastRefill' = tryConsume.lastRefill]_vars

\* After GET /info, a provider call that had consumed the only token has
\* failed and the bucket is still empty.
C25_Witness ==
    /\ lastGet.route = "/info"
    /\ maxTokens = 1
    /\ now = 0
    /\ tokens = 0
    /\ reply.status = 200
    /\ reply.payload.stub = FALSE
    /\ reply.payload.error # Null

\* ---- C26 ---------------------------------------------------------------
\* C26: a provider call is issued only by the handler of a request for which
\* tryConsume() returned true and whose prompt passed validation; a request
\* that is rejected by the limiter or by validation is answered with 429 or
\* 400 in a step that issues no call; and every call in flight carries a
\* prompt that passes validation.
C26_CallsOnlyForAdmittedValid ==
    /\ [](\A c \in InFlight : ValidatePrompt(c.body).status = 0)
    /\ [][(BagCardinality(calls') > BagCardinality(calls) \/ fetched' # fetched) =>
             \E body \in Bodies :
                 /\ PostLlm(body)
                 /\ tryConsume.ok
                 /\ ValidatePrompt(body).status = 0
                 /\ calls' = calls (+) SetToBag({StartCall(SelectProvider, body)})
                 /\ reply' = reply]_vars
    /\ [][\A body \in Bodies :
             (PostLlm(body) /\ (~tryConsume.ok \/ ValidatePrompt(body).status # 0)) =>
                 /\ reply'.status \in {400, 429}
                 /\ calls' = calls
                 /\ fetched' = fetched]_vars

\* With a key configured and a positive rate, requests have been answered
\* with 400 until one with a valid prompt was answered with 429, and no call
\* has gone out.
C26_Witness ==
    /\ OpenAIKeySet \/ AnthropicKeySet
    /\ maxTokens >= 1
    /\ reply.status = 429
    /\ ValidatePrompt(reply.body).status = 0
    /\ fetched = {}
    /\ calls = EmptyBag

\* ---- C27 ---------------------------------------------------------------
\* C27: with maxTokens >= 1, a tryConsume() call that returns false leaves
\* lastRefill where it was, and when the clock keeps advancing and requests
\* keep arriving, a rejected tryConsume() call (made while the clock of the
\* model has a further minute to run) is followed by one that returns true.
Rejected == attempt.rejected /\ maxTokens >= 1 /\ attempt.at + MS_PER_MINUTE <= MaxNow

C27_NoStarvation ==
    /\ [][\A body \in Bodies :
             (PostLlm(body) /\ ~tryConsume.ok) =>
                 /\ lastRefill' = lastRefill
                 /\ tokens' = tokens]_vars
    /\ Rejected ~> ~attempt.rejected

\* A retry made half a token period after the bucket was emptied has been
\* rejected with lastRefill unchanged, and the next one, a full period after
\* it was emptied, has been admitted.
C27_Witness ==
    /\ maxTokens = 1
    /\ now = MS_PER_MINUTE
    /\ lastRefill = MS_PER_MINUTE
    /\ attempt.at = MS_PER_MINUTE
    /\ ~attempt.rejected
    /\ Len(admitted) = 2

\* ---- C28 ---------------------------------------------------------------
\* The intervals that end now and are at most a minute long, by length.
IntervalLengths == {k * TickMs : k \in 0..TicksPerMinute}

\* The tryConsume() calls that returned true in the last T milliseconds
\* (both ends included).
AdmittedWithin(T) == CountAfter(admitted, now - T - 1)

\* C28 as stated (for a rate limit that is not negative): in any interval of
\* T milliseconds at most maxTokens + floor(T / 60000 * maxTokens) calls of
\* tryConsume() return true.  Violated: the time that passes while the bucket
\* is full, short of one token's worth, stays on the refill clock and pays
\* for a token on top of the full bucket.
C28_IntervalBound ==
    maxTokens >= 0 =>
        \A T \in IntervalLengths :
            T <= now =>
                AdmittedWithin(T) <= maxTokens + (T * maxTokens) \div MS_PER_MINUTE

\* ---- C29 ---------------------------------------------------------------
\* C29: under every configuration of the two API keys, the active_provider
\* that GET /info reports is the provider the POST /llm handler selects, and
\* when both routes have answered (POST /llm with a completion, of a call or
\* of the stub) the two responses name the same provider.
C29_InfoMatchesCompletion ==
    /\ InfoResponse.active_provider = SelectProvider
    /\ (lastGet.route = "/info" /\ reply.status = 200) =>
           lastGet.payload.active_provider = reply.payload.provider

\* With both keys configured, /info and a completed POST /llm both name
\* openai.
C29_Witness ==
    /\ OpenAIKeySet /\ AnthropicKeySet
    /\ lastGet.route = "/info"
    /\ reply.status = 200
    /\ reply.payload.provider = "openai"
    /\ lastGet.payload.active_provider = "openai"

\* ---- C30 ---------------------------------------------------------------
\* The calls that have not returned and whose timer is pending.
Awaiting == {c \in InFlight : c.pc = "fetch" /\ c.timer = "armed"}

\* C30: every pending timer is the timer of a call that has not returned and
\* still awaits fetch(), one timer per such call; a call that reads the body
\* has its timer cleared; so when no call is in flight no timer is pending,
\* and a timer can only fire, and abort, during its call.
C30_NoTimerOutlivesCall ==
    /\ \A d \in BagToSet(timers) : \E c \in Awaiting : c.deadline = d
    /\ BagCardinality(timers) =
           BagCardinality([c \in Awaiting |-> CopiesIn(c, calls)])
    /\ \A c \in InFlight : c.pc \in {"text", "json"} => c.timer = "cleared"
    /\ calls = EmptyBag => timers = EmptyBag

\* A call has returned from its catch block after a transport failure, before
\* its deadline, and no timer is pending.
C30_Witness ==
    /\ reply.status = 200
    /\ reply.payload.error = Str("Request failed: fetch failed")
    /\ now < config.llmTimeout
    /\ calls = EmptyBag
    /\ timers = EmptyBag
====
